---- MODULE Spec2Model ----
(***************************************************************************)
(* The audio relay session of statecs/realtime-api, in its four variants:  *)
(*   "server"  src/src/server.ts     HTTP, Promise.race, WAV encode        *)
(*   "p1"      src/unnamed/part_001  HTTP, streaming raw chunks            *)
(*   "p2"      src/unnamed/part_002  HTTP, key check, inner try/catch      *)
(*   "ws"      src/unnamed/part_003  WebSocket /audio-stream               *)
(* One session is followed from its first event to its last.  Each action  *)
(* is one run-to-completion step of the Node.js event loop: a handler from *)
(* its entry to its next await (or its return).                            *)
(***************************************************************************)
EXTENDS Integers, Sequences, FiniteSets, TLC

\* Bounds of the model.
MaxEvents == 2      \* upstream events delivered in one session
MaxFrames == 2      \* inbound WebSocket messages in one session
MaxBytes == 3       \* largest inbound binary frame, in bytes

Variants == {"server", "p1", "p2", "ws"}
HttpVariants == {"server", "p1", "p2"}
RaceVariants == {"server", "p2"}

\* req.body.audio as the JSON body can carry it.
AudioInputs == {"undefined", "emptystring", "emptyarray", "junk", "b64odd", "b64even"}
NoReq == [audio |-> "none", threadId |-> FALSE, assistantId |-> FALSE]

VARIABLES
  variant,        \* which server program runs
  apiKey,         \* OPENAI_API_KEY is configured
  pc,             \* position of the session's main handler
  req,            \* the HTTP request body
  rt,             \* the upstream RealtimeClient
  res,            \* the HTTP response
  ws,             \* the client WebSocket
  pending,        \* WavEncoder.encode promises not yet settled
  closeListener,  \* req.on('close') is registered
  clientClosed,   \* the HTTP client's 'close' event has fired
  race,           \* the Promise.race of speech.completed and the timer
  connReady,      \* connectionReadyPromise
  held,           \* message handlers suspended on connectionReadyPromise
  events,         \* upstream events delivered so far
  frames,         \* inbound WebSocket messages so far
  obs,            \* what happened in the session (history)
  fault,          \* an exception nobody caught
  crashed,        \* the process has exited
  pair,           \* two sessions served by one process at the same time
  api,            \* one request to the image-description server (part_000)
  pcm,            \* one audio sample on its way through sendAudioToClient
  deploy          \* one run of the deployment script

\* The state of one session followed alone.
relay == <<variant, apiKey, pc, req, rt, res, ws, pending, closeListener,
           clientClosed, race, connReady, held, events, frames, obs, fault, crashed>>

\* The state outside the session followed alone.
aux == <<pair, api, pcm, deploy>>

vars == <<relay, aux>>

----------------------------------------------------------------------------
\* JavaScript values of the request body.

\* !audio is false
Truthy(a) == a \notin {"undefined", "emptystring"}

\* audio.length
Length(a) == IF a \in {"emptystring", "emptyarray"} THEN 0 ELSE 4

\* Buffer.from(audio, 'base64').byteLength: characters outside the base64
\* alphabet are skipped, an array is copied element by element.
DecodedBytes(a) ==
  CASE a = "b64even" -> 2
    [] a = "b64odd" -> 3
    [] OTHER -> 0

\* new Int16Array(buffer, byteOffset, byteLength / 2).length: the length
\* argument goes through ToIndex, which truncates.
Int16Len(bytes) == bytes \div 2

MissingParamsAudioOnly(a, t, s) == ~Truthy(a)

\* if (!audio || !threadId || !assistantId)
MissingParams(a, t, s) == ~Truthy(a) \/ ~t \/ ~s

----------------------------------------------------------------------------
\* The HTTP response (express / http.ServerResponse).

InitRes == [headersSent |-> FALSE, writableEnded |-> FALSE, sentStatus |-> 0,
            heads |-> 0, chunks |-> 0, bodies |-> 0,
            lateJson |-> FALSE, writeAfterEnd |-> FALSE]

\* res.status(code).json(body): setHeader throws ERR_HTTP_HEADERS_SENT once
\* the headers are written.
JsonThrows(r) == r.headersSent

ResJson(r, code) ==
  IF r.headersSent
    THEN [r EXCEPT !.lateJson = TRUE]
    ELSE [r EXCEPT !.headersSent = TRUE, !.writableEnded = TRUE,
                   !.sentStatus = code, !.bodies = @ + 1]

\* res.writeHead(200, ...)
WriteHead(r) == [r EXCEPT !.headersSent = TRUE, !.sentStatus = 200, !.heads = @ + 1]

\* res.write(chunk): after end() it reports ERR_STREAM_WRITE_AFTER_END.
ResWrite(r) ==
  IF r.writableEnded
    THEN [r EXCEPT !.writeAfterEnd = TRUE]
    ELSE [r EXCEPT !.chunks = @ + 1]

\* res.end(): implicit 200 headers when none were written; a no-op when ended.
ResEnd(r) ==
  [r EXCEPT !.headersSent = TRUE, !.writableEnded = TRUE,
            !.sentStatus = IF @ = 0 THEN 200 ELSE @]

----------------------------------------------------------------------------
\* The upstream RealtimeClient.

InitRt == [created |-> FALSE, connected |-> FALSE, connectCalls |-> 0,
           disconnectCalls |-> 0, sent |-> <<>>]

Msg(op, bytes, samples) == [op |-> op, bytes |-> bytes, samples |-> samples]

\* realtimeClient.disconnect()
Disconnect(c) == [c EXCEPT !.connected = FALSE, !.disconnectCalls = @ + 1]

\* new RealtimeClient(...); updateSession(...); connect() is called
StartConnect(c) == [c EXCEPT !.created = TRUE, !.connectCalls = @ + 1]

Connected(c) == [c EXCEPT !.connected = TRUE]

UpSend(c, msgs) == [c EXCEPT !.sent = @ \o msgs]

----------------------------------------------------------------------------
\* Exceptions nobody catches.  An exception thrown out of an event listener
\* is an uncaughtException and ends the process.  A rejected promise nobody
\* handles is an unhandledRejection: it ends the process on Node 15 and
\* later and is only logged before, so both outcomes are kept.

NoFault == UNCHANGED <<fault, crashed>>

Uncaught == fault' = "uncaughtException" /\ crashed' = TRUE

Unhandled == fault' = "unhandledRejection" /\ crashed' \in BOOLEAN

Live == ~crashed

\* Two sessions in one process.  Each call of the connection (or request)
\* callback has its own closure: its own realtimeClient binding and its own
\* socket (or response).  Client objects are numbered in the order of their
\* construction; owner is the session whose callback constructed the object
\* and registered its listeners.
Sessions == {1, 2}
Clients == {1, 2}
MaxPairFrames == 1    \* frames one session's client sends
MaxPairEvents == 1    \* events one upstream client emits

InitPair ==
  [stage |-> [s \in Sessions |-> "idle"],
   env |-> [s \in Sessions |-> 0],
   made |-> 0,
   owner |-> [c \in Clients |-> 0],
   conn |-> [c \in Clients |-> FALSE],
   open |-> [s \in Sessions |-> FALSE],
   waiting |-> [s \in Sessions |-> 0],
   sentBy |-> [s \in Sessions |-> 0],
   emitted |-> [c \in Clients |-> 0],
   upRecv |-> [c \in Clients |-> <<>>],
   downRecv |-> [s \in Sessions |-> <<>>]]

\* The image-description server, src/unnamed/part_000.
Routes == {"/fetch-image", "/process-simple-vision-api", "/send-message"}
GuardedRoutes == {"/process-simple-vision-api", "/send-message"}

\* process.env.EXTENSION_SECRET: not set, set to the empty string, or set.
Secrets == {"undefined", "", "s3cret"}

\* req.headers.authorization
AuthHeaders == {"absent", "", "Bearer", "Bearer ", "Bearer s3cret",
                "Bearer wrong", "Basic s3cret"}

\* req.body.modelSelected
Models == {"undefined", "gpt-4o-mini", "claude-sonnet", "gpt-4"}

InitApi == [secret |-> "undefined", pc |-> "idle", route |-> "none",
            authHeader |-> "absent", modelSelected |-> "undefined",
            base64Image |-> FALSE, url |-> FALSE,
            status |-> 0, responses |-> 0, handlerRan |-> FALSE,
            vendorCalls |-> 0]

\* One sample of an Int16Array and its normalised value, kept as the exact
\* fraction num / den.
Int16Min == -32768
Int16Max == 32767
MaxNear == 40      \* samples this close to zero are all tried

Samples == {Int16Min, -Int16Max, -16384, 16384, Int16Max} \cup (-MaxNear..MaxNear)

InitPcm == [x |-> 0, num |-> 0, den |-> 1, done |-> FALSE]

\* The deployment script (server.ts:218-306).  The local directory: paths
\* are sequences of names from process.cwd() down.
Exclude == {"node_modules", ".git"}

Dirs == {<<>>, <<"node_modules">>, <<".git">>, <<"src">>, <<"src", "node_modules">>,
         <<"src", "lib">>, <<"src", "lib", ".git">>}

\* fs.readdir(dir)
Children(d) ==
  CASE d = <<>> -> <<"node_modules", ".git", "package.json", "src">>
    [] d = <<"src">> -> <<"node_modules", "app.ts", "lib">>
    [] d = <<"src", "lib">> -> <<".git", "util.ts">>
    [] OTHER -> <<"HEAD">>

Commands == <<"npm install", "npm run build", "pm2 delete", "pm2 start">>

InitDeploy == [pc |-> "start", todo |-> <<>>, put |-> {}, mkdir |-> {},
               putFailed |-> {}, sftp |-> "new", ssh |-> "new", ran |-> <<>>]

InitObs == [audioEvents |-> 0, audioOut |-> 0, errorEvents |-> 0,
            closedAwaiting |-> FALSE, closedConnecting |-> FALSE,
            connectFailed |-> FALSE, speechCompleted |-> FALSE,
            arrived |-> <<>>, sentFor |-> {}, lastKind |-> "other"]

\* The session followed alone has not begun.
RelayIdle ==
  /\ pc = "idle"
  /\ req = NoReq
  /\ rt = InitRt
  /\ res = InitRes
  /\ ws = [state |-> "none", out |-> <<>>]
  /\ pending = 0
  /\ closeListener = FALSE
  /\ clientClosed = FALSE
  /\ race = "none"
  /\ connReady = "pending"
  /\ held = <<>>
  /\ events = 0
  /\ frames = 0
  /\ obs = InitObs
  /\ fault = "none"
  /\ crashed = FALSE

Init ==
  /\ variant \in Variants
  /\ apiKey \in BOOLEAN
  /\ RelayIdle
  /\ pair = InitPair
  /\ api = InitApi
  /\ pcm = InitPcm
  /\ deploy = InitDeploy

----------------------------------------------------------------------------
\* POST /speech-to-speech, from the handler's entry to await connect().

PostServer ==
  /\ Live /\ variant = "server" /\ pc = "idle"
  /\ \E a \in AudioInputs, t \in BOOLEAN, s \in BOOLEAN :
       /\ req' = [audio |-> a, threadId |-> t, assistantId |-> s]
       /\ IF MissingParams(a, t, s)
            THEN /\ res' = ResJson(res, 400)
                 /\ pc' = "returned"
                 /\ rt' = rt
            ELSE /\ rt' = StartConnect(rt)
                 /\ pc' = "connecting"
                 /\ res' = res
  /\ UNCHANGED <<aux, variant, apiKey, ws, pending, closeListener, clientClosed, race,
                 connReady, held, events, frames, obs, fault, crashed>>

PostP1 ==
  /\ Live /\ variant = "p1" /\ pc = "idle"
  /\ \E a \in AudioInputs, t \in BOOLEAN, s \in BOOLEAN :
       /\ req' = [audio |-> a, threadId |-> t, assistantId |-> s]
       /\ IF MissingParams(a, t, s)
            THEN /\ res' = ResJson(res, 400)
                 /\ pc' = "returned"
                 /\ rt' = rt
            ELSE /\ rt' = StartConnect(rt)
                 /\ pc' = "connecting"
                 /\ res' = res
  /\ UNCHANGED <<aux, variant, apiKey, ws, pending, closeListener, clientClosed, race,
                 connReady, held, events, frames, obs, fault, crashed>>

PostP2 ==
  /\ Live /\ variant = "p2" /\ pc = "idle"
  /\ \E a \in AudioInputs, t \in BOOLEAN, s \in BOOLEAN :
       /\ req' = [audio |-> a, threadId |-> t, assistantId |-> s]
       /\ IF MissingParams(a, t, s)
            THEN /\ res' = ResJson(res, 400)
                 /\ pc' = "returned"
                 /\ rt' = rt
            ELSE IF ~apiKey
              THEN /\ res' = ResJson(res, 500)
                   /\ pc' = "nokey"
                   /\ rt' = rt
              ELSE /\ rt' = StartConnect(rt)
                   /\ pc' = "connecting"
                   /\ res' = res
  /\ UNCHANGED <<aux, variant, apiKey, ws, pending, closeListener, clientClosed, race,
                 connReady, held, events, frames, obs, fault, crashed>>

CatchAllSilent(c, r) ==
  /\ rt' = Disconnect(c)
  /\ res' = r
  /\ pc' = "returned"
  /\ NoFault

\* catch (error) { realtimeClient.disconnect(); if (!res.writableEnded) ... 500 }
\* The handler is async: what the catch block throws is a rejection of the
\* promise Express drops.
CatchAll(c, r) ==
  /\ rt' = Disconnect(c)
  /\ res' = IF r.writableEnded THEN r ELSE ResJson(r, 500)
  /\ pc' = "returned"
  /\ IF ~r.writableEnded /\ JsonThrows(r) THEN Unhandled ELSE NoFault

\* await realtimeClient.connect() rejects (HTTP variants).  The vendor
\* accepts a connection only with a key: connect() resolves (the ConnectOk
\* actions) only when one is configured.
ConnectFailHttp ==
  /\ Live /\ variant \in HttpVariants /\ pc = "connecting"
  /\ CatchAll(rt, res)
  /\ obs' = [obs EXCEPT !.connectFailed = TRUE]
  /\ UNCHANGED <<aux, variant, apiKey, req, ws, pending, closeListener, clientClosed,
                 race, connReady, held, events, frames>>

\* server.ts, from connect() resolving to await Promise.race
ConnectOkServer ==
  /\ Live /\ variant = "server" /\ pc = "connecting" /\ apiKey
  /\ IF DecodedBytes(req.audio) = 0
       THEN /\ rt' = Connected(rt)
            /\ res' = ResJson(res, 400)
            /\ pc' = "returned"
            /\ race' = race
       ELSE /\ rt' = UpSend(Connected(rt),
                       << Msg("item.create.text", 0, 0), Msg("response.create", 0, 0),
                          Msg("item.create.audio", DecodedBytes(req.audio), 0),
                          Msg("response.create", 0, 0) >>)
            /\ res' = res
            /\ pc' = "racing"
            /\ race' = "pending"
  /\ UNCHANGED <<aux, variant, apiKey, req, ws, pending, closeListener, clientClosed,
                 connReady, held, events, frames, obs, fault, crashed>>

\* part_002, from connect() resolving to await Promise.race.  realtime.send
\* throws when the upstream socket is not open.
ConnectOkP2 ==
  /\ Live /\ variant = "p2" /\ pc = "connecting" /\ apiKey
  /\ \E sendThrows \in BOOLEAN :
       IF Length(req.audio) = 0
         THEN /\ rt' = Connected(rt)
              /\ res' = ResJson(res, 400)
              /\ pc' = "returned"
              /\ race' = race
         ELSE IF sendThrows
           THEN /\ rt' = Connected(rt)
                /\ res' = ResJson(res, 500)
                /\ pc' = "returned"
                /\ race' = race
           ELSE /\ rt' = UpSend(Connected(rt),
                           << Msg("item.create.text", DecodedBytes(req.audio), 0),
                              Msg("response.create", 0, 0) >>)
                /\ res' = res
                /\ pc' = "racing"
                /\ race' = "pending"
  /\ UNCHANGED <<aux, variant, apiKey, req, ws, pending, closeListener, clientClosed,
                 connReady, held, events, frames, obs, fault, crashed>>

\* part_001, from connect() resolving to the handler's end.  audioBuffer.buffer
\* is the ArrayBuffer under the Buffer: the Buffer's own bytes, or more (a
\* slab of the allocation pool).  new Int16Array(arrayBuffer) throws a
\* RangeError when the ArrayBuffer's length is odd.
ConnectOkP1 ==
  /\ Live /\ variant = "p1" /\ pc = "connecting" /\ apiKey
  /\ \E slack \in 0..1 :
       LET bytes == DecodedBytes(req.audio)
           under == bytes + slack
       IN IF under % 2 = 1
            THEN /\ CatchAll(Connected(rt), res)
                 /\ closeListener' = closeListener
            ELSE /\ rt' = UpSend(Connected(rt),
                            << Msg("append", bytes, Int16Len(under)),
                               Msg("response.create", 0, 0) >>)
                 /\ res' = res
                 /\ pc' = "listening"
                 /\ closeListener' = TRUE
                 /\ NoFault
  /\ UNCHANGED <<aux, variant, apiKey, req, ws, pending, clientClosed, race,
                 connReady, held, events, frames, obs>>

----------------------------------------------------------------------------
\* Upstream events and timers of the HTTP variants.

\* event.item of a 'conversation.updated' event
Items == [role : {"user", "assistant"}, status : {"in_progress", "completed"},
          audio : BOOLEAN, transcript : BOOLEAN]

IsAssistantAudio(item) == item.role = "assistant" /\ item.audio

\* the kind of the item an event carries ("other" also for an event
\* without item)
Kind(item) ==
  CASE item.role = "user" /\ item.status = "completed" -> "userCompleted"
    [] item.role = "assistant" /\ item.status = "completed"
         /\ item.transcript /\ item.audio -> "assistantFull"
    [] OTHER -> "other"

\* what sendAudioToClient was called for
Gate(item) == [role |-> item.role, status |-> item.status, audio |-> item.audio]

\* the completed assistant utterance that carries audio
IsCompletedAudio(item) ==
  item.role = "assistant" /\ item.status = "completed" /\ item.audio

\* sendAudioToClient of server.ts and part_002, up to WavEncoder.encode
StartWav(r) ==
  IF r.writableEnded THEN r
  ELSE IF r.headersSent THEN r ELSE WriteHead(r)

\* sendAudioToClient of part_001
SendRaw(r) ==
  IF r.writableEnded THEN r
  ELSE ResWrite(IF r.headersSent THEN r ELSE WriteHead(r))

\* realtimeClient.on('conversation.updated') of server.ts and part_002
ConversationUpdatedRace ==
  /\ Live /\ variant \in RaceVariants /\ race # "none"
  /\ rt.connected /\ events < MaxEvents
  /\ \E item \in Items :
       IF IsCompletedAudio(item)
         THEN /\ res' = StartWav(res)
              /\ pending' = IF res.writableEnded THEN pending ELSE pending + 1
              /\ obs' = [obs EXCEPT !.audioEvents = @ + 1,
                                    !.sentFor = @ \cup {Gate(item)}]
         ELSE UNCHANGED <<res, pending, obs>>
  /\ events' = events + 1
  /\ UNCHANGED <<aux, variant, apiKey, pc, req, rt, ws, closeListener, clientClosed,
                 race, connReady, held, frames, fault, crashed>>

\* realtimeClient.on('conversation.updated') of part_001
ConversationUpdatedP1 ==
  /\ Live /\ variant = "p1" /\ pc = "listening"
  /\ rt.connected /\ events < MaxEvents
  /\ \E item \in Items :
       IF IsCompletedAudio(item)
         THEN /\ res' = SendRaw(res)
              /\ obs' = [obs EXCEPT !.audioEvents = @ + 1,
                                    !.audioOut = IF res.writableEnded THEN @ ELSE @ + 1,
                                    !.sentFor = @ \cup {Gate(item)}]
         ELSE UNCHANGED <<res, obs>>
  /\ events' = events + 1
  /\ UNCHANGED <<aux, variant, apiKey, pc, req, rt, ws, pending, closeListener,
                 clientClosed, race, connReady, held, frames, fault, crashed>>

\* realtimeClient.on('speech.in_progress') of part_001
SpeechInProgressP1 ==
  /\ Live /\ variant = "p1" /\ pc = "listening"
  /\ rt.connected /\ events < MaxEvents
  /\ res' = SendRaw(res)
  /\ events' = events + 1
  /\ UNCHANGED <<aux, variant, apiKey, pc, req, rt, ws, pending, closeListener,
                 clientClosed, race, connReady, held, frames, obs, fault, crashed>>

\* realtimeClient.on('speech.completed') of part_001
SpeechCompletedP1 ==
  /\ Live /\ variant = "p1" /\ pc = "listening"
  /\ rt.connected /\ events < MaxEvents
  /\ res' = IF res.writableEnded THEN res ELSE ResEnd(res)
  /\ obs' = [obs EXCEPT !.speechCompleted = TRUE]
  /\ events' = events + 1
  /\ UNCHANGED <<aux, variant, apiKey, pc, req, rt, ws, pending, closeListener,
                 clientClosed, race, connReady, held, frames, fault, crashed>>

\* part_001 registers no 'error' listener: the event changes nothing.
ErrorP1 ==
  /\ Live /\ variant = "p1" /\ pc = "listening"
  /\ rt.connected /\ events < MaxEvents
  /\ obs' = [obs EXCEPT !.errorEvents = @ + 1]
  /\ events' = events + 1
  /\ UNCHANGED <<aux, variant, apiKey, pc, req, rt, res, ws, pending, closeListener,
                 clientClosed, race, connReady, held, frames, fault, crashed>>

\* realtimeClient.on('error') of server.ts and part_002.  The listener runs
\* inside the SDK's dispatch: what it throws nobody catches.
ErrorRace ==
  /\ Live /\ variant \in RaceVariants /\ race # "none"
  /\ rt.connected /\ events < MaxEvents
  /\ res' = IF res.writableEnded THEN res ELSE ResJson(res, 500)
  /\ IF ~res.writableEnded /\ JsonThrows(res) THEN Uncaught ELSE NoFault
  /\ obs' = [obs EXCEPT !.errorEvents = @ + 1]
  /\ events' = events + 1
  /\ UNCHANGED <<aux, variant, apiKey, pc, req, rt, ws, pending, closeListener,
                 clientClosed, race, connReady, held, frames>>

\* 'speech.completed' resolves the race; the handler goes on to req.on('close').
SpeechCompletedRace ==
  /\ Live /\ variant \in RaceVariants /\ race # "none"
  /\ rt.connected /\ events < MaxEvents
  /\ IF race = "pending"
       THEN /\ race' = "resolved"
            /\ closeListener' = TRUE
            /\ pc' = "listening"
       ELSE UNCHANGED <<race, closeListener, pc>>
  /\ obs' = [obs EXCEPT !.speechCompleted = TRUE]
  /\ events' = events + 1
  /\ UNCHANGED <<aux, variant, apiKey, req, rt, res, ws, pending, clientClosed,
                 connReady, held, frames, fault, crashed>>

\* server.ts: the 30 s timer rejects the race, the catch block runs.
TimeoutServer ==
  /\ Live /\ variant = "server" /\ race = "pending"
  /\ race' = "rejected"
  /\ CatchAll(rt, res)
  /\ UNCHANGED <<aux, variant, apiKey, req, ws, pending, closeListener, clientClosed,
                 connReady, held, events, frames, obs>>

\* part_002: the inner catch answers 500 and the handler goes on to
\* req.on('close'); what the inner catch throws lands in the outer catch.
TimeoutP2 ==
  /\ Live /\ variant = "p2" /\ race = "pending"
  /\ race' = "rejected"
  /\ IF ~res.writableEnded /\ JsonThrows(res)
       THEN /\ CatchAll(rt, res)
            /\ closeListener' = closeListener
       ELSE /\ res' = IF res.writableEnded THEN res ELSE ResJson(res, 500)
            /\ closeListener' = TRUE
            /\ pc' = "listening"
            /\ rt' = rt
            /\ NoFault
  /\ UNCHANGED <<aux, variant, apiKey, req, ws, pending, clientClosed,
                 connReady, held, events, frames, obs>>

\* WavEncoder.encode(...).then: res.write, res.end.  A write after end emits
\* 'error' on the response, which has no listener.
EncodeDone ==
  /\ Live /\ pending > 0
  /\ res' = ResEnd(ResWrite(res))
  /\ pending' = pending - 1
  /\ obs' = [obs EXCEPT !.audioOut = IF res.writableEnded THEN @ ELSE @ + 1]
  /\ IF res.writableEnded THEN Uncaught ELSE NoFault
  /\ UNCHANGED <<aux, variant, apiKey, pc, req, rt, ws, closeListener, clientClosed,
                 race, connReady, held, events, frames>>

\* WavEncoder.encode(...).catch: res.status(500).json
EncodeFail ==
  /\ Live /\ pending > 0
  /\ res' = ResJson(res, 500)
  /\ pending' = pending - 1
  /\ IF JsonThrows(res) THEN Unhandled ELSE NoFault
  /\ UNCHANGED <<aux, variant, apiKey, pc, req, rt, ws, closeListener, clientClosed,
                 race, connReady, held, events, frames, obs>>

\* The client's connection closes: req emits 'close' once.
ClientClose ==
  /\ Live /\ variant \in HttpVariants /\ pc # "idle" /\ ~clientClosed
  /\ clientClosed' = TRUE
  /\ rt' = IF closeListener THEN Disconnect(rt) ELSE rt
  /\ obs' = [obs EXCEPT !.closedAwaiting =
                            pc \in {"racing", "listening"} /\ events = 0
                            /\ race \in {"none", "pending"},
                          !.closedConnecting = pc = "connecting"]
  /\ UNCHANGED <<aux, variant, apiKey, pc, req, res, ws, pending, closeListener,
                 race, connReady, held, events, frames, fault, crashed>>

----------------------------------------------------------------------------
\* The WebSocket variant (part_003).

\* An inbound message: a Buffer of some length at some byteOffset of its
\* ArrayBuffer, or something that is no Buffer.
Frames == [buffer : {TRUE}, bytes : 1..MaxBytes, off : {0, 1}]
            \cup {[buffer |-> FALSE, bytes |-> 0, off |-> 0]}

\* ws.send(data) without a callback: dropped unless the socket is open
WsSend(w, m) == IF w.state = "open" THEN [w EXCEPT !.out = Append(@, m)] ELSE w

\* ws.close()
WsClose(w) == IF w.state = "open" THEN [w EXCEPT !.state = "closing"] ELSE w

\* The body of ws.on('message') after await connectionReadyPromise.
\* new Int16Array(buffer, byteOffset, length) throws a RangeError for an odd
\* byteOffset, which the handler's catch reports to the client.
ProcessFrame(f, st) ==
  IF f.buffer
    THEN IF f.off % 2 = 1
           THEN [st EXCEPT !.ws = WsSend(@, "error")]
           ELSE [st EXCEPT !.rt = UpSend(@, << Msg("append", f.bytes, Int16Len(f.bytes)) >>)]
    ELSE [st EXCEPT !.ws = WsSend(@, "error")]

\* The suspended message handlers resume in the order they were suspended.
RECURSIVE Drain(_, _)
Drain(q, st) == IF q = <<>> THEN st ELSE Drain(Tail(q), ProcessFrame(Head(q), st))

\* wss.on('connection'), up to await realtimeClient.connect().  The promise
\* is rejected before any message handler awaits it.
WsConnection ==
  /\ Live /\ variant = "ws" /\ pc = "idle"
  /\ IF ~apiKey
       THEN /\ ws' = WsClose(WsSend([ws EXCEPT !.state = "open"], "error"))
            /\ connReady' = "rejected"
            /\ pc' = "nokey"
            /\ rt' = rt
            /\ Unhandled
       ELSE /\ ws' = [ws EXCEPT !.state = "open"]
            /\ rt' = StartConnect(rt)
            /\ pc' = "connecting"
            /\ connReady' = connReady
            /\ NoFault
  /\ UNCHANGED <<aux, variant, apiKey, req, res, pending, closeListener, clientClosed,
                 race, held, events, frames, obs>>

\* connect() resolves: the listener is registered, resolve() is called and
\* the suspended message handlers run.
ConnectOkWs ==
  /\ Live /\ variant = "ws" /\ pc = "connecting" /\ apiKey
  /\ LET st == Drain(held, [rt |-> Connected(rt), ws |-> ws])
     IN rt' = st.rt /\ ws' = st.ws
  /\ connReady' = "resolved"
  /\ pc' = "ready"
  /\ held' = <<>>
  /\ UNCHANGED <<aux, variant, apiKey, req, res, pending, closeListener, clientClosed,
                 race, events, frames, obs, fault, crashed>>

\* connect() rejects: the catch block reports, closes and rejects; every
\* suspended message handler lands in its own catch, after ws.close().
ConnectFailWs ==
  /\ Live /\ variant = "ws" /\ pc = "connecting"
  /\ ws' = WsClose(WsSend(ws, "error"))
  /\ connReady' = "rejected"
  /\ pc' = "failed"
  /\ held' = <<>>
  /\ obs' = [obs EXCEPT !.connectFailed = TRUE]
  /\ IF held = <<>> THEN Unhandled ELSE NoFault
  /\ UNCHANGED <<aux, variant, apiKey, req, rt, res, pending, closeListener,
                 clientClosed, race, events, frames>>

\* ws.on('message')
WsMessage ==
  /\ Live /\ variant = "ws" /\ ws.state \in {"open", "closing"}
  /\ frames < MaxFrames
  /\ \E f \in Frames :
       /\ obs' = IF f.buffer THEN [obs EXCEPT !.arrived = Append(@, f)] ELSE obs
       /\ CASE connReady = "pending" ->
                /\ held' = Append(held, f)
                /\ UNCHANGED <<rt, ws>>
           [] connReady = "resolved" ->
                /\ LET st == ProcessFrame(f, [rt |-> rt, ws |-> ws])
                   IN rt' = st.rt /\ ws' = st.ws
                /\ held' = held
           [] OTHER ->
                /\ ws' = WsSend(ws, "error")
                /\ UNCHANGED <<rt, held>>
  /\ frames' = frames + 1
  /\ UNCHANGED <<aux, variant, apiKey, pc, req, res, pending, closeListener,
                 clientClosed, race, connReady, events, fault, crashed>>

\* ws.on('close')
WsCloseEvent ==
  /\ Live /\ variant = "ws" /\ ws.state \in {"open", "closing"}
  /\ ws' = [ws EXCEPT !.state = "closed"]
  /\ rt' = IF rt.created THEN Disconnect(rt) ELSE rt
  /\ obs' = [obs EXCEPT !.closedAwaiting =
                            ws.state = "open" /\ pc = "ready" /\ events = 0,
                          !.closedConnecting = pc = "connecting"]
  /\ UNCHANGED <<aux, variant, apiKey, pc, req, res, pending, closeListener,
                 clientClosed, race, connReady, held, events, frames,
                 fault, crashed>>

\* realtimeClient.on('error') of part_003
ErrorWs ==
  /\ Live /\ variant = "ws" /\ rt.connected /\ events < MaxEvents
  /\ ws' = WsSend(ws, "error")
  /\ obs' = [obs EXCEPT !.errorEvents = @ + 1, !.lastKind = "other"]
  /\ events' = events + 1
  /\ UNCHANGED <<aux, variant, apiKey, pc, req, rt, res, pending, closeListener,
                 clientClosed, race, connReady, held, frames, fault, crashed>>

\* part_003 registers no 'speech.completed' listener: the event changes
\* nothing.
SpeechCompletedWs ==
  /\ Live /\ variant = "ws" /\ rt.connected /\ events < MaxEvents
  /\ obs' = [obs EXCEPT !.speechCompleted = TRUE, !.lastKind = "other"]
  /\ events' = events + 1
  /\ UNCHANGED <<aux, variant, apiKey, pc, req, rt, res, ws, pending, closeListener,
                 clientClosed, race, connReady, held, frames, fault, crashed>>

OnUpdatedWsAudioFirst(w, item) ==
  LET w1 == IF item.role = "user" /\ item.status = "completed" /\ item.transcript
              THEN WsSend(w, "transcription") ELSE w
      w2 == IF IsCompletedAudio(item) THEN WsSend(w1, "audio") ELSE w1
  IN IF item.role = "assistant" /\ item.status = "completed" /\ item.transcript
       THEN WsSend(w2, "assistant_response") ELSE w2

\* realtimeClient.on('conversation.updated') of part_003
OnUpdatedWs(w, item) ==
  LET w1 == IF item.role = "user" /\ item.status = "completed" /\ item.transcript
              THEN WsSend(w, "transcription") ELSE w
      w2 == IF item.role = "assistant" /\ item.status = "completed" /\ item.transcript
              THEN WsSend(w1, "assistant_response") ELSE w1
  IN IF IsCompletedAudio(item) THEN WsSend(w2, "audio") ELSE w2

ConversationUpdatedWs ==
  /\ Live /\ variant = "ws" /\ pc = "ready"
  /\ rt.connected /\ events < MaxEvents
  /\ \E item \in Items :
       /\ ws' = OnUpdatedWs(ws, item)
       /\ obs' = IF IsCompletedAudio(item)
                   THEN [obs EXCEPT !.audioEvents = @ + 1,
                                    !.audioOut = IF ws.state = "open" THEN @ + 1 ELSE @,
                                    !.sentFor = @ \cup {Gate(item)},
                                    !.lastKind = Kind(item)]
                   ELSE [obs EXCEPT !.lastKind = Kind(item)]
  /\ events' = events + 1
  /\ UNCHANGED <<aux, variant, apiKey, pc, req, rt, res, pending, closeListener,
                 clientClosed, race, connReady, held, frames, fault, crashed>>

----------------------------------------------------------------------------
Next ==
  \/ PostServer \/ PostP1 \/ PostP2
  \/ ConnectFailHttp \/ ConnectOkServer \/ ConnectOkP1 \/ ConnectOkP2
  \/ ConversationUpdatedRace \/ ConversationUpdatedP1
  \/ SpeechInProgressP1 \/ SpeechCompletedP1 \/ ErrorP1
  \/ ErrorRace \/ SpeechCompletedRace
  \/ TimeoutServer \/ TimeoutP2
  \/ EncodeDone \/ EncodeFail
  \/ ClientClose
  \/ WsConnection \/ ConnectOkWs \/ ConnectFailWs
  \/ WsMessage \/ WsCloseEvent
  \/ ErrorWs \/ SpeechCompletedWs \/ ConversationUpdatedWs

Spec == Init /\ [][Next]_vars

----------------------------------------------------------------------------
\* Two sessions at the same time (part_003's connection callback, part_001's
\* request handler).  variant is the program that serves both.

RealtimeClientShared(s) == pair.made

\* The client object a session's code reaches through realtimeClient, a
\* binding of the callback's own scope.
RealtimeClientOf(s) == pair.env[s]

\* The socket (or response) the listeners of client c write to: the ws (or
\* res) parameter of the callback that registered them.
SocketOf(c) == pair.owner[c]

\* s copies of the frame tag s
Tagged(s, n) == [i \in 1..n |-> s]

\* wss.on('connection') / app.post: new RealtimeClient, await connect()
PairOpen(s) ==
  /\ pair.stage[s] = "idle"
  /\ LET c == pair.made + 1
     IN pair' = [pair EXCEPT !.stage[s] = "connecting", !.open[s] = TRUE,
                             !.made = c, !.env[s] = c, !.owner[c] = s]
  /\ UNCHANGED <<relay, api, pcm, deploy>>

\* connect() resolves: listeners are registered; part_003 resumes the
\* suspended message handlers, part_001 appends the request's audio.
PairConnected(s) ==
  /\ pair.stage[s] = "connecting"
  /\ LET c == RealtimeClientOf(s)
         n == IF variant = "p1" THEN 1 ELSE pair.waiting[s]
     IN pair' = [pair EXCEPT !.stage[s] = "ready", !.conn[c] = TRUE,
                             !.upRecv[c] = @ \o Tagged(s, n),
                             !.waiting[s] = 0]
  /\ UNCHANGED <<relay, api, pcm, deploy>>

\* ws.on('message') of session s
PairMessage(s) ==
  /\ variant = "ws" /\ pair.open[s]
  /\ pair.stage[s] \in {"connecting", "ready"}
  /\ pair.sentBy[s] < MaxPairFrames
  /\ pair' = IF pair.stage[s] = "connecting"
               THEN [pair EXCEPT !.sentBy[s] = @ + 1, !.waiting[s] = @ + 1]
               ELSE [pair EXCEPT !.sentBy[s] = @ + 1,
                                 !.upRecv[RealtimeClientOf(s)] = Append(@, s)]
  /\ UNCHANGED <<relay, api, pcm, deploy>>

\* Client object c emits audio or a transcript: its listener writes to the
\* socket it captured; a closed socket drops the message.
PairEvent(c) ==
  /\ c <= pair.made /\ pair.conn[c]
  /\ pair.stage[pair.owner[c]] = "ready"
  /\ pair.emitted[c] < MaxPairEvents
  /\ LET s == SocketOf(c)
     IN pair' = [pair EXCEPT !.emitted[c] = @ + 1,
                             !.downRecv[s] = IF pair.open[s] THEN Append(@, c) ELSE @]
  /\ UNCHANGED <<relay, api, pcm, deploy>>

\* ws.on('close') / req.on('close') of session s.  part_001 has registered
\* its listener only once the request's work is done.
PairClose(s) ==
  /\ pair.open[s]
  /\ LET listening == IF variant = "p1" THEN pair.stage[s] = "ready" ELSE TRUE
     IN pair' = [pair EXCEPT !.open[s] = FALSE,
                             !.conn[RealtimeClientOf(s)] =
                                IF listening THEN FALSE ELSE @]
  /\ UNCHANGED <<relay, api, pcm, deploy>>

PairNext ==
  \/ \E s \in Sessions :
       PairOpen(s) \/ PairConnected(s) \/ PairMessage(s) \/ PairClose(s)
  \/ \E c \in Clients : PairEvent(c)

PairInit ==
  /\ variant \in {"ws", "p1"}
  /\ apiKey = TRUE
  /\ RelayIdle
  /\ pair = InitPair
  /\ api = InitApi
  /\ pcm = InitPcm
  /\ deploy = InitDeploy

SpecPair == PairInit /\ [][PairNext]_vars

----------------------------------------------------------------------------
\* The image-description server (part_000): one request from its arrival to
\* its response.

\* authHeader.split(' ')[1]
Token(h) ==
  CASE h \in {"Bearer s3cret", "Basic s3cret"} -> "s3cret"
    [] h = "Bearer wrong" -> "wrong"
    [] h = "Bearer " -> ""
    [] OTHER -> "undefined"

AuthenticateAnyToken(h, secret) == IF h \in {"absent", ""} THEN 401 ELSE 0

\* authenticate: the status it sends, or 0 when it calls next().  A missing
\* and an empty header are both falsy.
Authenticate(h, secret) ==
  IF h \in {"absent", ""} THEN 401
  ELSE IF Token(h) = secret THEN 0 ELSE 403

\* res.sendStatus(code), res.status(code).json(...), res.json(...)
ApiRespond(a, code) ==
  [a EXCEPT !.status = code, !.responses = @ + 1, !.pc = "done"]

\* fetch(...) of a vendor API is called
ApiCallVendor(a, vendor) ==
  [a EXCEPT !.vendorCalls = @ + 1, !.pc = vendor]

DescribeSyncAnyModel(a) == ApiCallVendor(a, "awaitOpenAI")

\* The describing handlers up to their first await.  The claude-sonnet
\* branch calls base64Image.replace, a TypeError without an image; a throw
\* lands in the catch block, which answers 500.
DescribeSync(a) ==
  CASE a.modelSelected \in {"gpt-4o-mini", "undefined"} -> ApiCallVendor(a, "awaitOpenAI")
    [] a.modelSelected = "claude-sonnet" ->
         IF a.base64Image THEN ApiCallVendor(a, "awaitAnthropic")
                          ELSE ApiRespond(a, 500)
    [] OTHER -> ApiRespond(a, 500)

\* /fetch-image up to await fetch(imageUrl)
FetchImageSync(a) ==
  IF a.url THEN [a EXCEPT !.pc = "awaitImage"] ELSE ApiRespond(a, 400)

\* express routes a request: authenticate on the guarded routes, then the
\* handler, which runs until its first await.
ApiRequest ==
  /\ api.pc = "idle"
  /\ \E r \in Routes, h \in AuthHeaders, m \in Models, img \in BOOLEAN, u \in BOOLEAN :
       LET a == [api EXCEPT !.route = r, !.authHeader = h, !.modelSelected = m,
                            !.base64Image = img, !.url = u]
           verdict == IF r \in GuardedRoutes THEN Authenticate(h, api.secret) ELSE 0
           ran == [a EXCEPT !.handlerRan = TRUE]
       IN api' = IF verdict # 0 THEN ApiRespond(a, verdict)
                 ELSE IF r = "/fetch-image" THEN FetchImageSync(ran)
                 ELSE DescribeSync(ran)
  /\ UNCHANGED <<relay, pair, pcm, deploy>>

\* The vendor's answer arrives: a usable completion is sent with 200; a
\* rejected fetch, a body that is not JSON, an error answer or an answer
\* without text throws into the catch block, which answers 500.
ApiVendorAnswer ==
  /\ api.pc \in {"awaitOpenAI", "awaitAnthropic"}
  /\ \E usable \in BOOLEAN :
       api' = ApiRespond(api, IF usable THEN 200 ELSE 500)
  /\ UNCHANGED <<relay, pair, pcm, deploy>>

\* /fetch-image: the image is fetched and compressed, or the catch block
\* answers 404.
ApiImageFetched ==
  /\ api.pc = "awaitImage"
  /\ \E ok \in BOOLEAN :
       api' = ApiRespond(api, IF ok THEN 200 ELSE 404)
  /\ UNCHANGED <<relay, pair, pcm, deploy>>

ApiNext == ApiRequest \/ ApiVendorAnswer \/ ApiImageFetched

ApiInit ==
  /\ variant = "server"
  /\ apiKey = TRUE
  /\ RelayIdle
  /\ pair = InitPair
  /\ pcm = InitPcm
  /\ deploy = InitDeploy
  /\ api \in {[InitApi EXCEPT !.secret = k] : k \in Secrets}

SpecApi == ApiInit /\ [][ApiNext]_vars

----------------------------------------------------------------------------
\* PCM to float in sendAudioToClient.  part_001 sends the samples as they
\* are and converts nothing.

FloatVariants == {"server", "p2", "ws"}

\* x => x / 32768 of server.ts and part_002
WavDivisor == 32768

\* audio[i] / 32767 of part_003
WsDivisor == 32767

Divisor(v) == IF v = "ws" THEN WsDivisor ELSE WavDivisor

\* The quotient is kept exact.  x / 32768 is exact in a Float32Array as
\* well; x / 32767 is rounded there to the nearest float, which moves no
\* value across -1 or 1.
Normalize(v, x) == [x |-> x, num |-> x, den |-> Divisor(v), done |-> TRUE]

PcmConvert ==
  /\ ~pcm.done
  /\ pcm' = Normalize(variant, pcm.x)
  /\ UNCHANGED <<relay, pair, api, deploy>>

PcmNext == PcmConvert

PcmInit ==
  /\ variant \in FloatVariants
  /\ apiKey = TRUE
  /\ RelayIdle
  /\ pair = InitPair
  /\ api = InitApi
  /\ deploy = InitDeploy
  /\ pcm \in {[InitPcm EXCEPT !.x = x] : x \in Samples}

SpecPcm == PcmInit /\ [][PcmNext]_vars

----------------------------------------------------------------------------
\* The deployment script.  One async function runs from start to end; each
\* action runs it up to the await whose outcome it draws.

\* for (const fileName of files): the entries of a directory that are not
\* excluded, as paths, in readdir's order.
Kept(d) ==
  LET names == SelectSeq(Children(d), LAMBDA n : n \notin Exclude)
  IN [i \in 1..Len(names) |-> Append(d, names[i])]

\* catch (err) { console.error } finally { ssh.dispose() }
DeployCatch(d) == [d EXCEPT !.pc = "done", !.ssh = IF @ = "connected" THEN "disposed" ELSE @]

\* sftp.connect, then the readdir of the top directory
DeployStart ==
  /\ deploy.pc = "start"
  /\ \E connected \in BOOLEAN, listed \in BOOLEAN :
       deploy' = IF ~connected THEN DeployCatch(deploy)
                 ELSE IF ~listed THEN DeployCatch([deploy EXCEPT !.sftp = "connected"])
                 ELSE [deploy EXCEPT !.sftp = "connected", !.pc = "upload",
                                     !.todo = Kept(<<>>)]
  /\ UNCHANGED <<relay, pair, api, pcm>>

\* One turn of the loop: fs.stat, then mkdir and the recursive readdir for a
\* directory, sftp.put for a file.  A failed mkdir or put is logged by
\* .catch(console.error) and the loop goes on; a failed stat or readdir
\* throws.
DeployEntry ==
  /\ deploy.pc = "upload" /\ deploy.todo # <<>>
  /\ LET p == Head(deploy.todo)
         rest == Tail(deploy.todo)
     IN \E statOk \in BOOLEAN, sent \in BOOLEAN, listed \in BOOLEAN :
          deploy' =
            IF ~statOk THEN DeployCatch(deploy)
            ELSE IF p \in Dirs
              THEN IF listed
                     THEN [deploy EXCEPT !.todo = Kept(p) \o rest,
                                         !.mkdir = IF sent THEN @ \cup {p} ELSE @]
                     ELSE DeployCatch([deploy EXCEPT !.mkdir = IF sent THEN @ \cup {p} ELSE @])
              ELSE [deploy EXCEPT !.todo = rest,
                                  !.put = IF sent THEN @ \cup {p} ELSE @,
                                  !.putFailed = IF sent THEN @ ELSE @ \cup {p}]
  /\ UNCHANGED <<relay, pair, api, pcm>>

\* The loop is over: sftp.end(), then ssh.connect
DeployUploaded ==
  /\ deploy.pc = "upload" /\ deploy.todo = <<>>
  /\ \E ended \in BOOLEAN, connected \in BOOLEAN :
       deploy' = IF ~ended THEN DeployCatch(deploy)
                 ELSE IF ~connected THEN DeployCatch([deploy EXCEPT !.sftp = "ended"])
                 ELSE [deploy EXCEPT !.sftp = "ended", !.ssh = "connected", !.pc = "commands"]
  /\ UNCHANGED <<relay, pair, api, pcm>>

\* ssh.execCommand of the next command; its exit status is not looked at.
\* After the last one the finally block disposes the connection.
DeployCommand ==
  /\ deploy.pc = "commands"
  /\ \E executed \in BOOLEAN :
       deploy' =
         IF ~executed THEN DeployCatch(deploy)
         ELSE LET ran == Append(deploy.ran, Commands[Len(deploy.ran) + 1])
              IN IF Len(ran) = Len(Commands)
                   THEN DeployCatch([deploy EXCEPT !.ran = ran])
                   ELSE [deploy EXCEPT !.ran = ran]
  /\ UNCHANGED <<relay, pair, api, pcm>>

DeployNext == DeployStart \/ DeployEntry \/ DeployUploaded \/ DeployCommand

DeployInit ==
  /\ variant = "server"
  /\ apiKey = TRUE
  /\ RelayIdle
  /\ pair = InitPair
  /\ api = InitApi
  /\ pcm = InitPcm
  /\ deploy = InitDeploy

SpecDeploy == DeployInit /\ [][DeployNext]_vars

----------------------------------------------------------------------------
\* Properties.

Range(q) == {q[i] : i \in 1..Len(q)}

Count(q, m) == Cardinality({i \in 1..Len(q) : q[i] = m})

Appends(q) == {i \in 1..Len(q) : q[i].op = "append"}

\* The session has nothing left to run that could call disconnect(): the
\* HTTP handler has returned without a 'close' listener, or its listener can
\* no longer fire; the WebSocket has closed and connect() has settled.
SessionFinal ==
  IF variant = "ws"
    THEN ws.state = "closed" /\ pc # "connecting"
    ELSE pc \in {"returned", "nokey"} \/ (pc = "listening" /\ clientClosed)

\* C1: no session reaches its final state with the upstream still connected.
C1_UpstreamReleased == (SessionFinal /\ ~crashed) => ~rt.connected

\* C2: after the 30 s timer has rejected the race, the finished session has
\* answered its client and holds no open upstream connection.
C2_TimeoutAborts ==
  (race = "rejected" /\ SessionFinal /\ pending = 0 /\ ~crashed)
     => (res.writableEnded /\ ~rt.connected)

\* C3: a client that closes after the session started and before the
\* upstream responded makes the session call disconnect() exactly once.
C3_DisconnectOnce ==
  (obs.closedAwaiting /\ SessionFinal /\ ~crashed) => rt.disconnectCalls = 1

\* C4: in the HTTP variants no handler sends a JSON error after the headers
\* were written, and nothing writes to or closes the response a second time
\* with an error.
C4_OneTerminalOutcome ==
  variant \in HttpVariants => (~res.lateJson /\ ~res.writeAfterEnd /\ fault = "none")

\* error messages given to the client
ErrorMessages == IF variant = "ws" THEN Count(ws.out, "error") ELSE res.bodies

DownstreamClosed ==
  IF variant = "ws" THEN ws.state \in {"closing", "closed"} ELSE res.writableEnded

\* C5: once the upstream has emitted 'error', the client has exactly one
\* error message and both ends are closed.
C5_ErrorClosesBoth ==
  (obs.errorEvents > 0 /\ ~crashed)
     => (ErrorMessages = 1 /\ ~rt.connected /\ DownstreamClosed)

\* C6: in a session whose upstream events were all completed assistant
\* audio events, without timeout or exception, whose client is still there
\* and whose encodes have all settled, every such event has produced its own
\* outbound audio message.
C6_OneMessagePerEvent ==
  (/\ pending = 0 /\ fault = "none" /\ events = obs.audioEvents /\ race # "rejected"
   /\ (variant = "ws" => ws.state = "open"))
     => obs.audioOut = obs.audioEvents

\* C7: a POST whose audio, threadId or assistantId is missing or empty is
\* answered 400 and never creates, connects or uses an upstream client.
C7_BadRequest ==
  (variant \in HttpVariants /\ req # NoReq
     /\ (req.audio \in {"undefined", "emptystring"} \/ ~req.threadId \/ ~req.assistantId))
  => (res.sentStatus = 400 /\ res.writableEnded /\ rt = InitRt)

\* a request lacking only assistantId was answered 400
C7_Witness ==
  /\ variant \in HttpVariants /\ req # NoReq
  /\ req.audio = "b64even" /\ req.threadId /\ ~req.assistantId
  /\ res.sentStatus = 400

\* the request passed parameter validation, or the socket connected
SessionAccepted ==
  IF variant = "ws" THEN pc # "idle"
  ELSE req # NoReq /\ ~MissingParams(req.audio, req.threadId, req.assistantId)

ConfigErrorReported ==
  IF variant = "ws" THEN ws.out # <<>> /\ ws.out[1] = "error"
  ELSE res.sentStatus = 500

\* C8: a session started without an API key reports a configuration error,
\* never calls connect() and sends nothing upstream.
C8_NoKeyFailsFast ==
  (~apiKey /\ SessionAccepted)
     => (rt.connectCalls = 0 /\ rt.sent = <<>> /\ ConfigErrorReported)

\* C9: when connect() fails, the client is told and the downstream is
\* closed (HTTP: 500 and the response ended; WebSocket: an error message,
\* unless the client had already gone, and the socket closed), and nothing
\* is forwarded upstream.
C9_ConnectFailure ==
  obs.connectFailed =>
    /\ rt.sent = <<>>
    /\ IF variant = "ws"
         THEN /\ ws.state \in {"closing", "closed"}
              /\ ("error" \in Range(ws.out) \/ obs.closedConnecting)
         ELSE res.sentStatus = 500 /\ res.writableEnded /\ res.bodies = 1

\* connect() failed on a WebSocket session, a message came in afterwards,
\* the client got the one error message and the socket is closed
C9_Witness ==
  /\ obs.connectFailed /\ variant = "ws" /\ frames > 0
  /\ ws.out = <<"error">> /\ ws.state = "closed"

\* C10: only payloads of an even byte length are forwarded upstream, and
\* they are forwarded whole.
C10_WholeSamplesOnly ==
  \A i \in Appends(rt.sent) :
     rt.sent[i].bytes % 2 = 0 /\ 2 * rt.sent[i].samples = rt.sent[i].bytes

\* C11: in the HTTP variants the response is started at most once: writeHead
\* runs at most once in a session, and no later attempt to start the
\* response (writeHead or status().json()) raises an error.
C11_HeadersOnce ==
  variant \in HttpVariants => (res.heads <= 1 /\ ~res.lateJson)

\* C12: once the upstream has signalled speech.completed and no encode is
\* outstanding, the downstream transport is closed: the HTTP response is
\* ended, or the WebSocket is closing or closed.
C12_CompletionClosesDownstream ==
  (obs.speechCompleted /\ pending = 0 /\ ~crashed) => DownstreamClosed

\* The lifecycle state of the session, read off the program's state.
SessionClosed ==
  DownstreamClosed \/ clientClosed \/ pc \in {"returned", "nokey", "failed"}

Phase ==
  IF SessionClosed THEN "Closed"
  ELSE CASE pc = "idle" -> "Created"
         [] pc = "connecting" -> "AwaitingUpstream"
         [] OTHER -> "Streaming"

PhaseStep(p, q) ==
  \/ p = q
  \/ q = "Closed"
  \/ p = "Created" /\ q = "AwaitingUpstream"
  \/ p = "AwaitingUpstream" /\ q = "Streaming"

\* C14: a session moves Created -> AwaitingUpstream -> Streaming -> Closed,
\* Closed being reachable from every state; nothing has been forwarded
\* upstream before Streaming; and once Closed the session stays Closed,
\* forwards nothing more upstream and sends no more audio downstream.
C14_Lifecycle ==
  [][ /\ PhaseStep(Phase, Phase')
      /\ (Phase \in {"Created", "AwaitingUpstream"} => rt.sent = <<>>)
      /\ (Phase = "Closed" => /\ rt.sent' = rt.sent
                              /\ obs.audioOut' = obs.audioOut) ]_vars

\* The session has reported an error to its client.
ErrorReported ==
  IF variant = "ws" THEN "error" \in Range(ws.out)
                    ELSE res.sentStatus \in {400, 500}

\* C15: an error is terminal for its session: after it is reported nothing
\* more is forwarded upstream and no more audio is delivered downstream,
\* and connect() is called at most once in a session.
C15_ErrorsTerminal ==
  [][ /\ rt.connectCalls' <= 1
      /\ (ErrorReported => /\ rt.sent' = rt.sent
                           /\ obs.audioOut' = obs.audioOut) ]_vars

\* C18: in the WebSocket variant, once the client socket has closed and the
\* connection attempt has settled, the upstream RealtimeClient is not
\* connected.
C18_CloseTearsDownUpstream ==
  (variant = "ws" /\ ws.state = "closed" /\ pc # "connecting" /\ ~crashed)
    => ~rt.connected

\* The byte lengths of a sequence of frames or of appendInputAudio calls.
RECURSIVE BytesOf(_)
BytesOf(q) == IF q = <<>> THEN <<>> ELSE <<Head(q).bytes>> \o BytesOf(Tail(q))

Forwarded == SelectSeq(rt.sent, LAMBDA m : m.op = "append")

\* C19: in the WebSocket variant nothing is passed to appendInputAudio
\* before connect() has succeeded, and once it has, the binary frames of the
\* session have been forwarded in their order of arrival, each exactly once.
C19_HeldThenInOrder ==
  variant = "ws" =>
    /\ (connReady # "resolved" => Forwarded = <<>>)
    /\ (connReady = "resolved" => BytesOf(Forwarded) = BytesOf(obs.arrived))

\* C20: in the HTTP variants res.write is never called on a response that
\* has ended, whatever the interleaving of sendAudioToClient calls, encode
\* completions, speech.completed and error or timeout responses.
C20_NoWriteAfterEnd ==
  variant \in HttpVariants => ~res.writeAfterEnd

\* C13: of two sessions served at the same time, each upstream client has
\* received only frames of the session that created it, each downstream
\* socket only output of its own session's upstream client, and a session
\* that is open and ready still has its upstream connected: no other
\* session has touched it.
C13_Isolation ==
  /\ \A c \in Clients : \A i \in 1..Len(pair.upRecv[c]) :
        pair.owner[c] = pair.upRecv[c][i]
  /\ \A s \in Sessions : \A i \in 1..Len(pair.downRecv[s]) :
        pair.owner[pair.downRecv[s][i]] = s
  /\ \A s \in Sessions :
        (pair.stage[s] = "ready" /\ pair.open[s]) => pair.conn[pair.env[s]]

C13_Witness ==
  /\ pair.env[1] = 2 /\ pair.env[2] = 1
  /\ \A s \in Sessions : pair.downRecv[s] # <<>> /\ pair.upRecv[pair.env[s]] # <<>>

\* C16: on the guarded routes a request without an Authorization header is
\* answered 401 and one whose token differs from the secret 403, in both
\* cases without the handler running and without a vendor call; a handler
\* of a guarded route has run only for a token equal to the secret; the
\* handler of /fetch-image runs whatever the header.
C16_Authenticate ==
  api.route # "none" =>
    /\ (api.route \in GuardedRoutes /\ api.authHeader \in {"absent", ""})
         => (api.status = 401 /\ ~api.handlerRan /\ api.vendorCalls = 0)
    /\ (api.route \in GuardedRoutes /\ api.authHeader \notin {"absent", ""}
          /\ Token(api.authHeader) # api.secret)
         => (api.status = 403 /\ ~api.handlerRan /\ api.vendorCalls = 0)
    /\ (api.route \in GuardedRoutes /\ api.handlerRan)
         => Token(api.authHeader) = api.secret
    /\ api.route = "/fetch-image" => api.handlerRan

C16_Witness ==
  /\ api.route = "/send-message" /\ api.secret = "s3cret"
  /\ api.authHeader = "Bearer wrong" /\ api.status = 403 /\ api.pc = "done"

\* C17: every program that converts PCM to float divides each sample by
\* 32768, the quotient lies in [-1, 1] for every 16-bit sample, and 0,
\* 16384, -16384, 32767 become 0, 1/2, -1/2, 32767/32768.
C17_Normalisation ==
  pcm.done =>
    /\ pcm.den = 32768
    /\ -pcm.den <= pcm.num /\ pcm.num <= pcm.den
    /\ (pcm.x = 0 => pcm.num = 0)
    /\ (pcm.x = 16384 => 2 * pcm.num = pcm.den)
    /\ (pcm.x = -16384 => -2 * pcm.num = pcm.den)
    /\ (pcm.x = 32767 => 32768 * pcm.num = 32767 * pcm.den)

\* Something the program itself will still do, without any further event of
\* the upstream or the client: settle connect(), fire the 30 s timer of a
\* pending race, settle an encode.
StepDue == pc = "connecting" \/ race = "pending" \/ pending > 0

\* C21: an accepted POST /speech-to-speech is never left with its response
\* open and nothing due that would end it, whatever the upstream does.
C21_ResponseFinishes ==
  (variant \in HttpVariants /\ SessionAccepted /\ ~crashed /\ ~res.writableEnded)
    => StepDue

\* C22: the conversation.updated handler has called sendAudioToClient only
\* for items with role assistant, status completed and audio; never for a
\* user item or an assistant item still in progress.
C22_AudioGate ==
  \A g \in obs.sentFor :
    g.role = "assistant" /\ g.status = "completed" /\ g.audio

C22_Witness ==
  /\ variant = "ws" /\ events = 2 /\ obs.audioEvents = 1
  /\ obs.sentFor # {} /\ "audio" \in Range(ws.out)

\* C23: authenticate passes a request to the handler of a guarded route
\* only if the request presents a token and the token equals a configured,
\* non-empty secret.
C23_SecretRequired ==
  (api.route \in GuardedRoutes /\ api.handlerRan) =>
    /\ api.secret \notin {"undefined", ""}
    /\ Token(api.authHeader) \notin {"undefined", ""}
    /\ Token(api.authHeader) = api.secret

\* What one upstream event may add to the socket's output.
EventOutputs ==
  {<<>>, <<"error">>, <<"transcription">>, <<"assistant_response">>,
   <<"audio">>, <<"assistant_response", "audio">>}

Added(suffix) == ws.out' = ws.out \o suffix

\* C24: in the WebSocket variant each upstream event adds its messages to
\* the open socket as one block; a completed assistant item with transcript
\* and audio adds assistant_response and then the audio, a completed user
\* item adds at most one transcription and no audio.
C24_MessageOrder ==
  [][ (variant = "ws" /\ events' = events + 1 /\ ws.state = "open") =>
        /\ \E suffix \in EventOutputs : Added(suffix)
        /\ obs'.lastKind = "assistantFull" => Added(<<"assistant_response", "audio">>)
        /\ obs'.lastKind = "userCompleted" => (Added(<<>>) \/ Added(<<"transcription">>)) ]_vars

C24_Witness ==
  /\ variant = "ws" /\ obs.lastKind = "assistantFull"
  /\ ws.out = <<"transcription", "assistant_response", "audio">>

\* C25: an authenticated request to a describing route is answered exactly
\* once, with 200 or 500; a modelSelected other than gpt-4o-mini, undefined
\* and claude-sonnet is answered 500 without a vendor call; /fetch-image
\* answers 400 without a url and otherwise 200 or 404.
C25_ResponseCodes ==
  /\ api.responses <= 1
  /\ api.pc = "done" =>
       /\ api.responses = 1
       /\ (api.route \in GuardedRoutes /\ api.handlerRan) =>
            /\ api.status \in {200, 500}
            /\ (api.status = 200 => api.vendorCalls = 1)
            /\ (api.modelSelected \notin {"gpt-4o-mini", "undefined", "claude-sonnet"}
                  => (api.status = 500 /\ api.vendorCalls = 0))
       /\ api.route = "/fetch-image" =>
            IF api.url THEN api.status \in {200, 404} ELSE api.status = 400

C25_Witness ==
  /\ api.pc = "done" /\ api.route = "/send-message" /\ api.handlerRan
  /\ api.modelSelected = "gpt-4" /\ api.status = 500 /\ api.vendorCalls = 0

Creates(q) == {i \in 1..Len(q) : q[i].op = "response.create"}

AudioContent(q) == {i \in 1..Len(q) : q[i].op \in {"item.create.audio", "append"}}

\* C26: for an accepted POST /speech-to-speech exactly one response
\* creation is requested from the upstream, and only after the request's
\* audio content has been sent upstream.
C26_OneCreateResponse ==
  (variant \in HttpVariants /\ rt.sent # <<>>) =>
    /\ Cardinality(Creates(rt.sent)) = 1
    /\ \A i \in Creates(rt.sent) : \E j \in AudioContent(rt.sent) : j < i

\* C27: the remote commands run only once the upload is over and no file
\* upload has failed, in the order npm install, npm run build, pm2 delete,
\* pm2 start; nothing under a node_modules or .git entry is uploaded; and
\* when the script is done neither the SFTP nor the SSH connection is open.
C27_Deploy ==
  /\ deploy.ran # <<>> => (deploy.todo = <<>> /\ deploy.putFailed = {})
  /\ deploy.ran = SubSeq(Commands, 1, Len(deploy.ran))
  /\ \A p \in deploy.put \cup deploy.mkdir : \A i \in 1..Len(p) : p[i] \notin Exclude
  /\ deploy.pc = "done" => (deploy.sftp # "connected" /\ deploy.ssh # "connected")

====
